---- MODULE Spec2Model ----
(***************************************************************************)
(* Model of the to-do list screen of src/app/index.tsx: the React state of *)
(* the App component (form fields, task list, editing index), its event    *)
(* handlers (addTask, deleteTask, toggleTaskCompletion, editTask,          *)
(* scheduleNotification), the startup permission request, and the render   *)
(* of the FlatList that decides which handlers the user can reach.         *)
(*                                                                         *)
(* A task object is a record whose DOMAIN is the set of properties the     *)
(* JavaScript object has: the object built by                              *)
(*   { ...updatedTasks[editingIndex], task, priority, category }           *)
(* from an index past the end of the array has no "id" and no "completed". *)
(* Array indices are 1-based here (index i of the source is i + 1).        *)
(***************************************************************************)
EXTENDS Integers, Sequences, FiniteSets, TLC

\* ---------------------------------------------------------------- bounds
MaxTasks == 2
MaxClock == 1
MaxReminders == 1

\* ------------------------------------------------------- program values
\* useState<number | null>(null): indices are 1-based, so 0 stands for null.
Null == 0
Priorities == {"High", "Medium", "Low"}
Categories == {"Work", "Personal", "Shopping", "Other"}
DefaultPriority == "Medium"
DefaultCategory == "Work"
EmptyText == << >>
ReminderSeconds == 60

\* Strings are sequences of one-character strings, so that trim() computes.
WhiteSpace == {" "}

\* The inputs the user's events are drawn from: texts typed into the TextInput
\* (empty, blank, plain, padded) and the Picker items selected.
PickedPriorities == {"Medium", "High"}
PickedCategories == {"Work", "Personal"}
TypedTexts == { << >>, <<" ">>, <<" ", "a", " ">> }

\* An empty slot of a sparse array (an index below length that was never set).
Hole == [empty |-> TRUE]

\* editingId is a history variable: the identity of the task that Edit was
\* last pressed on. No handler reads it.
VARIABLES task, priority, category, tasks, editingIndex, editingId,
          clock, permission, scheduled, awaiting, alerts

vars == <<task, priority, category, tasks, editingIndex, editingId,
          clock, permission, scheduled, awaiting, alerts>>

formVars == <<task, priority, category>>
notifVars == <<permission, scheduled, awaiting, alerts>>

\* ------------------------------------------------------ pure functions
RECURSIVE trimStart(_)
trimStart(s) ==
  IF s = << >> THEN << >>
  ELSE IF Head(s) \in WhiteSpace THEN trimStart(Tail(s)) ELSE s

RECURSIVE trimEnd(_)
trimEnd(s) ==
  IF s = << >> THEN << >>
  ELSE IF s[Len(s)] \in WhiteSpace THEN trimEnd(SubSeq(s, 1, Len(s) - 1)) ELSE s

\* if (task) in place of if (task.trim()).
trim_NotApplied(s) == s

\* task.trim(): the text without its leading and trailing white space.
trim(s) == trimEnd(trimStart(s))

\* if (task.trim()): a string is truthy iff it is not empty.
Truthy(s) == s # << >>

\* Date.now().toString(): the decimal digits of the clock reading.
Digit(d) == <<"0", "1", "2", "3", "4", "5", "6", "7", "8", "9">>[d + 1]

RECURSIVE toString(_)
toString(n) == IF n < 10 THEN <<Digit(n)>> ELSE toString(n \div 10) \o <<Digit(n % 10)>>

NewId(now) == toString(now)

\* A new task that starts out completed.
NewTask_Completed(t, p, c, now) ==
  [task |-> t, priority |-> p, category |-> c, completed |-> TRUE, id |-> NewId(now)]

\* { task, priority, category, completed: false, id: Date.now().toString() }
NewTask(t, p, c, now) ==
  [task |-> t, priority |-> p, category |-> c, completed |-> FALSE, id |-> NewId(now)]

\* { ...old, task, priority, category } where old may be undefined (no properties).
SpreadUpdate(old, t, p, c) ==
  [k \in (DOMAIN old) \cup {"task", "priority", "category"} |->
     IF k = "task" THEN t
     ELSE IF k = "priority" THEN p
     ELSE IF k = "category" THEN c
     ELSE old[k]]

Undefined == [k \in {} |-> TRUE]

\* const a = [...arr]; a[i] = v   (i 1-based; i may be past the end, which
\* leaves empty slots between the old end and i).
ArraySet(arr, i, v) ==
  [j \in 1..(IF i > Len(arr) THEN i ELSE Len(arr)) |->
     IF j = i THEN v ELSE IF j <= Len(arr) THEN arr[j] ELSE Hole]

\* arr[i] read: undefined past the end.
ArrayGet(arr, i) == IF i \in 1..Len(arr) THEN arr[i] ELSE Undefined

\* tasks.filter((_, i) => i === index): keeps what it should remove.
FilterOut_Keeps(arr, index) == <<arr[index]>>

\* tasks.filter((_, i) => i !== index)
RECURSIVE FilterOut(_, _)
FilterOut(arr, index) ==
  IF arr = << >> THEN << >>
  ELSE IF index = 1 THEN Tail(arr)
  ELSE <<Head(arr)>> \o FilterOut(Tail(arr), index - 1)

\* !x.completed where the property may be absent (!undefined = true).
NotCompleted(obj) == IF "completed" \in DOMAIN obj THEN ~obj.completed ELSE TRUE

\* obj.completed = v: sets (or adds) the property.
SetCompleted(obj, v) ==
  [k \in (DOMAIN obj) \cup {"completed"} |-> IF k = "completed" THEN v ELSE obj[k]]

\* updatedTasks[index].completed = !updatedTasks[index].completed on a copy.
Toggled(arr, index) == [arr EXCEPT ![index] = SetCompleted(@, NotCompleted(@))]

\* The identity of the task a press of Edit selects: its id property, if any.
IdOf(obj) == [k \in (DOMAIN obj) \cap {"id"} |-> obj[k]]

\* The FlatList renders one row per array slot; keyExtractor reads item.id and
\* throws on an empty slot (item undefined), which takes the screen down.
Rendered == \A i \in 1..Len(tasks) : tasks[i] # Hole

\* ---------------------------------------------------------------- Init
Init ==
  /\ task = EmptyText
  /\ priority = DefaultPriority
  /\ category = DefaultCategory
  /\ tasks = << >>
  /\ editingIndex = Null
  /\ editingId = Undefined
  /\ clock = 0
  /\ permission = "undetermined"
  /\ scheduled = << >>
  /\ awaiting = 0
  /\ alerts = {}

\* ------------------------------------------------------------- actions
\* onChangeText={setTask}
setTask ==
  /\ Rendered
  /\ \E t \in TypedTexts : task' = t
  /\ UNCHANGED <<priority, category, tasks, editingIndex, editingId, clock, notifVars>>

\* onValueChange={(value) => setPriority(value)}
setPriority ==
  /\ Rendered
  /\ \E p \in PickedPriorities : priority' = p
  /\ UNCHANGED <<task, category, tasks, editingIndex, editingId, clock, notifVars>>

\* onValueChange={(value) => setCategory(value)}
setCategory ==
  /\ Rendered
  /\ \E c \in PickedCategories : category' = c
  /\ UNCHANGED <<task, priority, tasks, editingIndex, editingId, clock, notifVars>>

\* Time passes between two events (Date.now() advances).
Tick ==
  /\ clock < MaxClock
  /\ clock' = clock + 1
  /\ UNCHANGED <<formVars, tasks, editingIndex, editingId, notifVars>>

\* A submit that leaves the typed text in the input.
ResetForm_KeepsText ==
  /\ UNCHANGED task
  /\ priority' = DefaultPriority
  /\ category' = DefaultCategory

\* setTask(""); setPriority("Medium"); setCategory("Work");
ResetForm ==
  /\ task' = EmptyText
  /\ priority' = DefaultPriority
  /\ category' = DefaultCategory

addTask ==
  /\ Rendered
  /\ IF Truthy(trim(task))
     THEN /\ IF editingIndex # Null
             THEN /\ tasks' = ArraySet(tasks, editingIndex,
                                SpreadUpdate(ArrayGet(tasks, editingIndex),
                                             task, priority, category))
                  /\ editingIndex' = Null
                  /\ editingId' = Undefined
             ELSE /\ Len(tasks) < MaxTasks
                  /\ tasks' = Append(tasks, NewTask(task, priority, category, clock))
                  /\ UNCHANGED <<editingIndex, editingId>>
          /\ ResetForm
     ELSE UNCHANGED <<formVars, tasks, editingIndex, editingId>>
  /\ UNCHANGED <<clock, notifVars>>

deleteTask(index) ==
  /\ Rendered
  /\ index \in 1..Len(tasks)
  /\ tasks' = FilterOut(tasks, index)
  /\ UNCHANGED <<formVars, editingIndex, editingId, clock, notifVars>>

toggleTaskCompletion(index) ==
  /\ Rendered
  /\ index \in 1..Len(tasks)
  /\ tasks' = Toggled(tasks, index)
  /\ UNCHANGED <<formVars, editingIndex, editingId, clock, notifVars>>

editTask(index) ==
  /\ Rendered
  /\ index \in 1..Len(tasks)
  /\ task' = tasks[index].task
  /\ priority' = tasks[index].priority
  /\ category' = tasks[index].category
  /\ editingIndex' = index
  /\ editingId' = IdOf(tasks[index])
  /\ UNCHANGED <<tasks, clock, notifVars>>

\* requestPermissionsAsync() resolves with status "granted".
PermissionGranted ==
  /\ permission = "undetermined"
  /\ permission' = "granted"
  /\ UNCHANGED <<formVars, tasks, editingIndex, editingId, clock, scheduled, awaiting, alerts>>

\* requestPermissionsAsync() resolves with another status: the alert is shown.
PermissionDenied ==
  /\ permission = "undetermined"
  /\ permission' = "denied"
  /\ alerts' = alerts \cup {"Permission Denied"}
  /\ UNCHANGED <<formVars, tasks, editingIndex, editingId, clock, scheduled, awaiting>>

\* `Reminder for task: ${taskName}`
ReminderBody(taskName) == <<"Reminder for task: ">> \o taskName

\* scheduleNotification up to its await: the request is handed to the scheduler.
scheduleNotification(index) ==
  /\ Rendered
  /\ index \in 1..Len(tasks)
  /\ Len(scheduled) < MaxReminders
  /\ scheduled' = Append(scheduled,
                    [title |-> "Task Reminder", body |-> ReminderBody(tasks[index].task),
                     seconds |-> ReminderSeconds])
  /\ awaiting' = awaiting + 1
  /\ UNCHANGED <<formVars, tasks, editingIndex, editingId, clock, permission, alerts>>

\* scheduleNotification after its await: the promise resolved.
ReminderSet ==
  /\ awaiting > 0
  /\ awaiting' = awaiting - 1
  /\ alerts' = alerts \cup {"Reminder Set"}
  /\ UNCHANGED <<formVars, tasks, editingIndex, editingId, clock, permission, scheduled>>

\* The handlers of the form and of the task list.
NextTaskList ==
  \/ setTask
  \/ setPriority
  \/ setCategory
  \/ Tick
  \/ addTask
  \/ \E index \in 1..(MaxTasks + 1) : deleteTask(index)
  \/ \E index \in 1..(MaxTasks + 1) : toggleTaskCompletion(index)
  \/ \E index \in 1..(MaxTasks + 1) : editTask(index)

\* The whole screen: the handlers above interleaved with the permission
\* request and the reminders.
Next ==
  \/ NextTaskList
  \/ PermissionGranted
  \/ PermissionDenied
  \/ \E index \in 1..(MaxTasks + 1) : scheduleNotification(index)
  \/ ReminderSet

Spec == Init /\ [][Next]_vars

\* The task list manager alone. No handler of NextTaskList reads or writes
\* permission, scheduled, awaiting or alerts, and the reminder actions write
\* none of the form, the list or the editing state.
SpecTaskList == Init /\ [][NextTaskList]_vars

\* ------------------------------------------------------- claim vocabulary
\* A text with no character other than white space (the empty text included).
IsBlank(s) == \A i \in 1..Len(s) : s[i] \in WhiteSpace

\* A submit of a non-blank text with no task being edited / with one.
CreateSubmit == editingIndex = Null /\ ~IsBlank(task) /\ addTask
UpdateSubmit == editingIndex # Null /\ ~IsBlank(task) /\ addTask

HasFields(obj, names) == names \subseteq DOMAIN obj

WellFormedTask(obj) ==
  /\ DOMAIN obj = {"task", "priority", "category", "completed", "id"}
  /\ obj.completed \in BOOLEAN
  /\ ~IsBlank(obj.task)
  /\ obj.priority \in Priorities
  /\ obj.category \in Categories

\* C1: a submit of a non-blank text while no task is being edited lengthens
\* the list by exactly one; the new last task is not completed and carries the
\* form's text, priority and category; every earlier task keeps its index and
\* all of its fields.
C1_CreateAppends ==
  [][CreateSubmit =>
       /\ Len(tasks') = Len(tasks) + 1
       /\ HasFields(tasks'[Len(tasks')], {"task", "priority", "category", "completed"})
       /\ tasks'[Len(tasks')].completed = FALSE
       /\ tasks'[Len(tasks')].task = task
       /\ tasks'[Len(tasks')].priority = priority
       /\ tasks'[Len(tasks')].category = category
       /\ \A i \in 1..Len(tasks) : tasks'[i] = tasks[i]]_vars

\* A list of MaxTasks tasks whose last one was created from a padded text with
\* both pickers moved off their defaults, behind an earlier completed task.
C1_Witness ==
  /\ Len(tasks) = 2
  /\ WellFormedTask(tasks[1]) /\ tasks[1].completed
  /\ WellFormedTask(tasks[2]) /\ ~tasks[2].completed
  /\ tasks[2].task = <<" ", "a", " ">>
  /\ tasks[2].priority = "High"
  /\ tasks[2].category = "Personal"
  /\ editingIndex = Null

\* C2: a submit while the form text is empty or all white space changes
\* neither the list, nor the form fields, nor the editing state, whether or
\* not a task is being edited.
C2_BlankSubmitIsNoOp ==
  [][(IsBlank(task) /\ addTask) =>
       UNCHANGED <<tasks, task, priority, category, editingIndex>>]_vars

\* A task is being edited and the text was replaced by a single space.
C2_Witness ==
  /\ task = <<" ">>
  /\ editingIndex \in 1..Len(tasks)
  /\ priority = "High"

\* C3: a submit of a non-blank text while index i is being edited overwrites
\* the text, priority and category of the task at i and nothing else: same
\* length, same id and completed there, every other task untouched.
C3_UpdateInPlace ==
  [][UpdateSubmit =>
       /\ Len(tasks') = Len(tasks)
       /\ editingIndex \in 1..Len(tasks)
       /\ tasks'[editingIndex] =
            [tasks[editingIndex] EXCEPT !.task = task, !.priority = priority,
                                        !.category = category]
       /\ \A j \in 1..Len(tasks) : j # editingIndex => tasks'[j] = tasks[j]]_vars

\* C4: for every list the screen can show and every valid index, the list that
\* deleteTask stores is exactly one shorter, has the tasks below the index at
\* their old index and the tasks above it one index lower, each unchanged.
C4_DeleteRemovesExactlyOne ==
  Rendered =>
    \A i \in 1..Len(tasks) :
      LET updatedTasks == FilterOut(tasks, i) IN
        /\ Len(updatedTasks) = Len(tasks) - 1
        /\ \A j \in 1..(i - 1) : updatedTasks[j] = tasks[j]
        /\ \A j \in (i + 1)..Len(tasks) : updatedTasks[j - 1] = tasks[j]

\* The second of two tasks was selected for editing and the first deleted: the
\* selected task now sits at the first index.
C4_Witness ==
  /\ Len(tasks) = 1
  /\ editingIndex = 2
  /\ WellFormedTask(tasks[1])
  /\ tasks[1].id = <<"1">>
  /\ editingId = IdOf(tasks[1])

\* C5: toggling a valid index flips the completed flag of that task and
\* changes nothing else, and toggling the same index twice gives the list back.
C5_ToggleFlips ==
  [][\A i \in 1..Len(tasks) :
       toggleTaskCompletion(i) =>
         /\ HasFields(tasks[i], {"completed"})
         /\ tasks' = [tasks EXCEPT ![i].completed = ~tasks[i].completed]
         /\ Toggled(tasks', i) = tasks
         /\ UNCHANGED <<task, priority, category, editingIndex>>]_vars

\* C6: no two tasks of the list have the same id.
C6_UniqueIds ==
  \A i, j \in 1..Len(tasks) :
    (tasks[i] # Hole /\ tasks[j] # Hole /\ i # j) =>
       /\ HasFields(tasks[i], {"id"})
       /\ HasFields(tasks[j], {"id"})
       /\ tasks[i].id # tasks[j].id

\* C7: every entry of the list is a well-formed task, and no index below the
\* length is empty.
C7_WellFormedList ==
  \A i \in 1..Len(tasks) : tasks[i] # Hole /\ WellFormedTask(tasks[i])

\* C8: every submit of a non-blank text, creating or updating, leaves the form
\* at text "", priority Medium, category Work and no task being edited.
C8_SubmitResets ==
  [][(~IsBlank(task) /\ addTask) =>
       /\ task' = << >>
       /\ priority' = "Medium"
       /\ category' = "Work"
       /\ editingIndex' = Null]_vars

\* The form is back at its defaults after the first task was edited into a
\* High / Personal task.
C8_Witness ==
  /\ Len(tasks) = 2
  /\ WellFormedTask(tasks[1])
  /\ tasks[1].priority = "High" /\ tasks[1].category = "Personal"
  /\ tasks[1].id = <<"0">> /\ tasks[2].id = <<"1">>
  /\ task = << >> /\ priority = "Medium" /\ category = "Work"
  /\ editingIndex = Null

\* C9: a reminder is handed to the scheduler, and "Reminder Set" is shown,
\* only while the permission request has resolved to granted.
C9_ReminderOnlyIfGranted ==
  [][(scheduled' # scheduled \/ awaiting' < awaiting) => permission = "granted"]_vars

\* C10: while a task is being edited, the editing index is a valid index of
\* the list and the task there has the id of the task that Edit was pressed on.
C10_EditingStaysBound ==
  editingIndex # Null =>
    /\ editingIndex \in 1..Len(tasks)
    /\ IdOf(tasks[editingIndex]) = editingId

====
